---- MODULE Spec2Model ----
(***************************************************************************)
(* The child-process launcher of bpftrace (src/src/child.cpp): the         *)
(* controller's ChildProc object, the cloned child running childfn, and    *)
(* the kernel state the two share (the eventfd start gate, the child's     *)
(* ptrace and signal state, its wait status).  Every system call of the    *)
(* controller and every statement of childfn is one atomic step, so that   *)
(* the two processes interleave at system-call granularity.                *)
(***************************************************************************)
EXTENDS Integers, Sequences, FiniteSets, TLC

\* ------------------------------------------------------------ constants

CHILD_GO == 103
CHILD_PTRACE == 112

SIGTRAP == 5
SIGKILL == 9
SIGTERM == 15
SIGSTOP == 19
PTRACE_EVENT_EXEC == 4

\* Exit statuses childfn returns.
EXIT_PRCTL == 10
EXIT_READ == 11
EXIT_EXECVE == 12

\* The value of exit_code_ and term_signal_ while nothing is recorded.
NoValue == -1

\* The descriptor eventfd() returns on success; -1 is its failure.
EventFd == 3

\* The capacity of childfn's argv array, terminator included.
maxargs == 256

\* ------------------------------------------------------------ bounds

\* Exit codes the target program may exit with: 0 .. MaxExitCode.
MaxExitCode == 1
\* Signals the environment sends to the child.
MaxEnvSignals == 1
\* Termination signals the controller sends over one tracker's life.
MaxKill == 2

\* Tokens of the longest command line launched.
MaxCmdSize == 257
\* Search-path candidates the first token resolves to, at most.
MaxCandidates == 3
\* Processes the symbol cache is asked about, and addresses asked for.
MaxPids == 2
MaxAddr == 5
\* Per-process views the symbol cache builds over one session.
MaxBuilds == 3

ExitCodes == 0 .. MaxExitCode

\* ------------------------------------------------------------ state

VARIABLES
  \* the controller: the ChildProc object
  state_, exit_code_, term_signal_, child_event_fd_,
  \* the controller: position, arguments and locals of the call in progress
  pc, r_pause, t_force, ret_to, ndebug,
  \* the kernel: the start gate and the controller's descriptor of it
  gate, gateCreated, ctlFdOpen,
  \* the child: position in childfn, buffer, process state
  cpc, bf, cstat, traced, traceexec, stop, exitst, pending, image, ranTarget,
  \* history: what has happened so far
  last, t_entry, steps, termTrace, written, nReads, nClose, nKill, nEnv,
  \* the launch: the command, the candidates its first token resolves to,
  \* validate_cmd's verdict, the stack allocated for the child
  cmd, paths, v_err, child_stack,
  \* the child: the writes made to its argv array, index to value
  argv,
  \* the symbol cache: the per-process views, the views built so far, the
  \* last answer given
  pid_sym_, nBuilds, answer

ctlVars == <<state_, exit_code_, term_signal_, child_event_fd_,
             pc, r_pause, t_force, ret_to, ndebug>>
gateVars == <<gate, gateCreated, ctlFdOpen>>
childVars == <<cpc, bf, cstat, traced, traceexec, stop, exitst, pending,
               image, ranTarget>>
histVars == <<last, t_entry, steps, termTrace, written, nReads, nClose, nKill,
              nEnv>>
launchVars == <<cmd, paths, v_err, child_stack, argv>>
cacheVars == <<pid_sym_, nBuilds, answer>>
sideVars == <<launchVars, cacheVars>>
vars == <<ctlVars, gateVars, childVars, histVars, sideVars>>

\* ------------------------------------------------------------ wait statuses

StExited(c) == [kind |-> "exited", val |-> c, ev |-> 0]
StSignaled(s) == [kind |-> "signaled", val |-> s, ev |-> 0]
StStopped(s, e) == [kind |-> "stopped", val |-> s, ev |-> e]
StNone == [kind |-> "none", val |-> 0, ev |-> 0]

WIFSTOPPED(w) == w.kind = "stopped"
WIFEXITED(w) == w.kind = "exited"
WIFSIGNALED(w) == w.kind = "signaled"
WSTOPSIG(w) == w.val

\* wstatus >> 8 == (SIGTRAP | (PTRACE_EVENT_EXEC << 8))
IsExecTrap(w) == WIFSTOPPED(w) /\ w.val = SIGTRAP /\ w.ev = PTRACE_EVENT_EXEC

\* The first wait's test: !WIFSTOPPED(wstatus) || WSTOPSIG(wstatus) != SIGSTOP
IsSelfStop(w) == WIFSTOPPED(w) /\ WSTOPSIG(w) = SIGSTOP

\* What an uninitialised wstatus may hold when the first waitpid fails with
\* an errno other than ECHILD and the code reads it all the same.
GarbageStatus == {StStopped(SIGSTOP, 0), StExited(0), StNone}

NoLast == [op |-> "none", arg |-> FALSE, res |-> "none", k0 |-> 0,
           pop |-> "none", parg |-> FALSE, pres |-> "none"]
NoEntry == [state |-> "INIT", ec |-> NoValue, ts |-> NoValue, k0 |-> 0,
            zombie |-> FALSE, prev |-> NoLast]

\* ------------------------------------------------------------ validate_cmd

\* The directories of the search path, in order; a candidate is the first
\* token found in one of them.
SearchPath == <<"/bin", "/usr/bin", "/sbin", "/usr/sbin", "/opt/bin">>

\* What util::abs_path gives for a path that does not canonicalize.
NoPath == "none"
\* The files the candidates may be.
RealPaths == {"A", "B", "C"}

\* The candidate found in the i-th directory, whose real path is real.
Candidate(i, real) == [raw |-> SearchPath[i], real |-> real]

\* util::resolve_binary_path(cmd[0]): every list of at most MaxCandidates
\* candidates, in search-path order.
CandidateLists ==
  UNION {[1 .. n -> RealPaths \cup {NoPath}] : n \in 0 .. MaxCandidates}

PathsOf(reals) == [i \in 1 .. Len(reals) |-> Candidate(i, reals[i])]

\* util::split_string(cmd, ' '): a command line of n tokens.
CmdOfSize(n) == [i \in 1 .. n |-> IF i = 1 THEN "prog" ELSE "arg"]

NoError == [err |-> "none", count |-> 0]

\* std::unordered_set<std::string> uniq_abs_path: the real paths of the
\* candidates that canonicalize.
uniq_abs_path(ps) ==
  {ps[i].real : i \in {j \in 1 .. Len(ps) : ps[j].real # NoPath}}

\* No write made to argv yet.
NoArgv == [i \in {} |-> "unset"]

\* The null pointer that ends argv.
NullPtr == "nullptr"

\* char* argv[maxargs]: the slots of the array.
ArgvSlots == 0 .. maxargs - 1

\* for (const auto& a : args->cmd) argv[idx++] = a.c_str(); then
\* argv[idx] = nullptr: the writes made, by index, whether or not the index
\* is a slot of the array.
BuildArgv(c) ==
  [idx \in 0 .. Len(c) |-> IF idx < Len(c) THEN c[idx + 1] ELSE NullPtr]

\* clone(childfn, stack, SIGCHLD, args): no CLONE_VM among the flags, so the
\* child runs on its own copy of the address space, the stack included.
CloneSharesMemory == FALSE

\* The stack the child runs on is intact: its own copy, or a shared region
\* the controller has not released.
ChildStackIntact == ~CloneSharesMemory \/ child_stack = "allocated"

\* Faulty variant of StackAfterCtor: the stack outlives the constructor.
StackAfterCtor_Kept == "allocated"

\* auto child_stack = std::make_unique<char[]>(STACK_SIZE), a local of the
\* constructor: what has become of the region once the constructor is left.
StackAfterCtor == "freed"

\* Faulty variant of validate_cmd: the number of tokens is not checked.
validate_cmd_AnySize(c, ps) ==
  IF Len(ps) = 0
    THEN [err |-> "NotFound", count |-> 0, cmd |-> c]
  ELSE IF Len(ps) >= 2 /\ Cardinality(uniq_abs_path(ps)) # 1
    THEN [err |-> "AmbiguousBinary", count |-> Len(ps), cmd |-> c]
  ELSE [err |-> "none", count |-> 0, cmd |-> [c EXCEPT ![1] = ps[1].raw]]

\* Faulty variant of validate_cmd: the message reports the number of real
\* paths instead of the number of candidates.
validate_cmd_CountsRealPaths(c, ps) ==
  IF Len(ps) = 0
    THEN [err |-> "NotFound", count |-> 0, cmd |-> c]
  ELSE IF Len(ps) >= 2 /\ Cardinality(uniq_abs_path(ps)) # 1
    THEN [err |-> "AmbiguousBinary", count |-> Cardinality(uniq_abs_path(ps)),
          cmd |-> c]
  ELSE LET c1 == [c EXCEPT ![1] = ps[1].raw] IN
    IF Len(c1) >= maxargs - 1
      THEN [err |-> "TooManyArguments", count |-> Len(c1), cmd |-> c1]
      ELSE [err |-> "none", count |-> 0, cmd |-> c1]

\* validate_cmd(cmd): the error thrown, if any, with the number its message
\* reports, and cmd with its first token resolved.
validate_cmd(c, ps) ==
  IF Len(ps) = 0
    THEN [err |-> "NotFound", count |-> 0, cmd |-> c]
  ELSE IF Len(ps) >= 2 /\ Cardinality(uniq_abs_path(ps)) # 1
    THEN [err |-> "AmbiguousBinary", count |-> Len(ps), cmd |-> c]
  ELSE LET c1 == [c EXCEPT ![1] = ps[1].raw] IN
    IF Len(c1) >= maxargs - 1
      THEN [err |-> "TooManyArguments", count |-> Len(c1), cmd |-> c1]
      ELSE [err |-> "none", count |-> 0, cmd |-> c1]

\* ------------------------------------------------------------ symbol cache

Pids == 1 .. MaxPids
Addrs == 0 .. MaxAddr

\* No view of the process in the cache.
NoView == [inst |-> 0, table |-> {}]

\* The address asked for has no symbol.
NoSymbol == [name |-> "unresolved", offset |-> 0]

NoAnswer == [pid |-> 0, addr |-> 0, sym |-> NoSymbol, hit |-> FALSE]

\* The symbol table of the binary every process runs: entries of address,
\* size and name.
ElfTable ==
  {[address |-> 1, size |-> 2, name |-> "f"],
   [address |-> 4, size |-> 1, name |-> "g"]}

\* lookup(address): the entry with the nearest preceding address when its
\* range holds the address, as name and offset; nothing otherwise.
lookup(table, a) ==
  LET below == {e \in table : e.address <= a} IN
  IF below = {} THEN NoSymbol
  ELSE LET e == CHOOSE x \in below : \A y \in below : y.address <= x.address
       IN IF a < e.address + e.size
            THEN [name |-> e.name, offset |-> a - e.address]
            ELSE NoSymbol

\* The n-th view built: a table instance of its own.
BuildView(n) == [inst |-> n, table |-> ElfTable]

\* resolve(queryAddress, pid) under the PerPid policy: the process's view
\* is looked up, or built when the cache has none, and asked.
resolve(a, p) ==
  /\ LET hit == pid_sym_[p] # NoView
         view == IF hit THEN pid_sym_[p] ELSE BuildView(nBuilds + 1)
     IN /\ hit \/ nBuilds < MaxBuilds
        /\ pid_sym_' = [pid_sym_ EXCEPT ![p] = view]
        /\ nBuilds' = IF hit THEN nBuilds ELSE nBuilds + 1
        /\ answer' = [pid |-> p, addr |-> a, sym |-> lookup(view.table, a),
                      hit |-> hit]
  /\ UNCHANGED <<ctlVars, gateVars, childVars, histVars, launchVars>>

\* Faulty variant of evict: every process's view goes.
evict_All(p) ==
  /\ pid_sym_[p] # NoView
  /\ pid_sym_' = [q \in Pids |-> NoView]
  /\ UNCHANGED <<nBuilds, answer>>
  /\ UNCHANGED <<ctlVars, gateVars, childVars, histVars, launchVars>>

\* evict(pid): the view of the process, which has died, is removed.
evict(p) ==
  /\ pid_sym_[p] # NoView
  /\ pid_sym_' = [pid_sym_ EXCEPT ![p] = NoView]
  /\ UNCHANGED <<nBuilds, answer>>
  /\ UNCHANGED <<ctlVars, gateVars, childVars, histVars, launchVars>>

\* The symbol cache alone, asked about MaxPids processes of one binary.
CacheNext ==
  \/ \E a \in Addrs, p \in Pids : resolve(a, p)
  \/ \E p \in Pids : evict(p)


\* ------------------------------------------------------------ Init

\* The state before ChildProc::ChildProc, the command line and its
\* candidates left open.
InitObject ==
  /\ state_ = "INIT" /\ exit_code_ = NoValue /\ term_signal_ = NoValue
  /\ child_event_fd_ = -1
  /\ pc = "init" /\ r_pause = FALSE /\ t_force = FALSE /\ ret_to = "user"
  /\ ndebug \in BOOLEAN
  /\ gate = 0 /\ gateCreated = FALSE /\ ctlFdOpen = FALSE
  /\ cpc = "none" /\ bf = 0 /\ cstat = "none" /\ traced = FALSE
  /\ traceexec = FALSE /\ stop = [sig |-> 0, ev |-> 0, reported |-> TRUE]
  /\ exitst = StNone /\ pending = {} /\ image = "none" /\ ranTarget = FALSE
  /\ last = NoLast /\ t_entry = NoEntry /\ steps = <<>> /\ termTrace = <<>>
  /\ written = <<>> /\ nReads = 0 /\ nClose = 0 /\ nKill = 0
  /\ nEnv = 0
  /\ v_err = NoError /\ child_stack = "none" /\ argv = NoArgv
  /\ pid_sym_ = [p \in Pids |-> NoView] /\ nBuilds = 0 /\ answer = NoAnswer

\* One command line that validate_cmd accepts: two tokens, one candidate.
Init ==
  /\ InitObject
  /\ cmd = CmdOfSize(2)
  /\ paths = <<Candidate(1, "A")>>

\* ------------------------------------------------------------ the child

ChildRunning == cstat = "run"

\* childfn returns c: the child exits with status c and awaits its reaping.
ChildExit(c) ==
  /\ cstat' = "zombie" /\ exitst' = StExited(c) /\ cpc' = "exited"

\* prctl(PR_SET_PDEATHSIG, SIGTERM): a failure returns 10; after a success
\* the child builds argv from args->cmd and comes to its read.
ChildPrctl ==
  /\ cpc = "prctl" /\ ChildRunning
  /\ \/ /\ cpc' = "read" /\ argv' = BuildArgv(cmd)
        /\ UNCHANGED <<cstat, exitst>>
     \/ /\ ChildExit(EXIT_PRCTL)
        /\ UNCHANGED argv
  /\ UNCHANGED <<bf, traced, traceexec, stop, pending, image, ranTarget>>
  /\ UNCHANGED <<ctlVars, gateVars, histVars>>
  /\ UNCHANGED <<cmd, paths, v_err, child_stack, cacheVars>>

\* Faulty variant of ChildReadOk: the read does not block on an empty gate.
ChildReadOk_NoBlock ==
  /\ cpc = "read" /\ ChildRunning
  /\ gateCreated
  /\ bf' = gate /\ gate' = 0
  /\ cpc' = IF gate = CHILD_PTRACE THEN "traceme" ELSE "execve"
  /\ nReads' = nReads + 1
  /\ UNCHANGED <<cstat, traced, traceexec, stop, exitst, pending, image,
                 ranTarget>>
  /\ UNCHANGED <<ctlVars, gateCreated, ctlFdOpen>>
  /\ UNCHANGED <<last, t_entry, steps, termTrace, written, nClose, nKill,
                 nEnv>>
  /\ UNCHANGED sideVars

\* read(args->event_fd, &bf, 8): blocks while the gate's counter is 0, then
\* takes the counter; fails on a bad descriptor or an interrupting signal.
ChildReadOk ==
  /\ cpc = "read" /\ ChildRunning
  /\ gateCreated /\ gate > 0
  /\ bf' = gate /\ gate' = 0
  /\ cpc' = IF gate = CHILD_PTRACE THEN "traceme" ELSE "execve"
  /\ nReads' = nReads + 1
  /\ UNCHANGED <<cstat, traced, traceexec, stop, exitst, pending, image, ranTarget>>
  /\ UNCHANGED <<ctlVars, gateCreated, ctlFdOpen>>
  /\ UNCHANGED <<last, t_entry, steps, termTrace, written, nClose, nKill, nEnv>>
  /\ UNCHANGED sideVars

ChildReadFail ==
  /\ cpc = "read" /\ ChildRunning
  /\ ChildExit(EXIT_READ)
  /\ nReads' = nReads + 1
  /\ UNCHANGED <<bf, traced, traceexec, stop, pending, image, ranTarget>>
  /\ UNCHANGED <<ctlVars, gateVars>>
  /\ UNCHANGED <<last, t_entry, steps, termTrace, written, nClose, nKill, nEnv>>
  /\ UNCHANGED sideVars

\* ptrace(PTRACE_TRACEME): a failure is only reported.
ChildTraceme ==
  /\ cpc = "traceme" /\ ChildRunning
  /\ traced' \in {TRUE, FALSE}
  /\ cpc' = "selfstop"
  /\ UNCHANGED <<bf, cstat, traceexec, stop, exitst, pending, image, ranTarget>>
  /\ UNCHANGED <<ctlVars, gateVars, histVars>>
  /\ UNCHANGED sideVars

\* kill(getpid(), SIGSTOP): the child stops before kill returns, in a
\* ptrace signal-delivery-stop when traced and a plain stop otherwise; a
\* failure is only reported.
ChildSelfStop ==
  /\ cpc = "selfstop" /\ ChildRunning
  /\ cpc' = "execve"
  /\ \/ /\ traced
        /\ cstat' = "tstop"
        /\ stop' = [sig |-> SIGSTOP, ev |-> 0, reported |-> FALSE]
     \/ /\ ~traced
        /\ cstat' = "jstop"
        /\ UNCHANGED stop
     \/ UNCHANGED <<cstat, stop>>
  /\ UNCHANGED <<bf, traced, traceexec, exitst, pending, image, ranTarget>>
  /\ UNCHANGED <<ctlVars, gateVars, histVars>>
  /\ UNCHANGED sideVars

\* execve(argv[0], argv, environ): on success the image is the target's and
\* a traced child stops before its first instruction, at the exec event
\* when PTRACE_O_TRACEEXEC is set and at a plain SIGTRAP otherwise; on
\* failure childfn returns 12.
ChildExecve ==
  /\ cpc = "execve" /\ ChildRunning
  /\ \/ /\ image' = "target" /\ cpc' = "target"
        /\ IF traced
             THEN /\ cstat' = "tstop"
                  /\ stop' = [sig |-> SIGTRAP,
                              ev |-> IF traceexec THEN PTRACE_EVENT_EXEC ELSE 0,
                              reported |-> FALSE]
             ELSE UNCHANGED <<cstat, stop>>
        /\ UNCHANGED exitst
     \/ /\ ChildExit(EXIT_EXECVE)
        /\ UNCHANGED <<image, stop>>
  /\ UNCHANGED <<bf, traced, traceexec, pending, ranTarget>>
  /\ UNCHANGED <<ctlVars, gateVars, histVars>>
  /\ UNCHANGED sideVars

\* The target program executes its first instructions.
TargetRun ==
  /\ cpc = "target" /\ ChildRunning /\ ~ranTarget
  /\ ranTarget' = TRUE
  /\ UNCHANGED <<cpc, bf, cstat, traced, traceexec, stop, exitst, pending, image>>
  /\ UNCHANGED <<ctlVars, gateVars, histVars>>
  /\ UNCHANGED sideVars

\* The target program exits with code c.
TargetExit(c) ==
  /\ cpc = "target" /\ ChildRunning
  /\ ranTarget' = TRUE
  /\ ChildExit(c)
  /\ UNCHANGED <<bf, traced, traceexec, stop, pending, image>>
  /\ UNCHANGED <<ctlVars, gateVars, histVars>>
  /\ UNCHANGED sideVars

\* ------------------------------------------------------------ the kernel

kernVars == <<cstat, traced, traceexec, stop, exitst, pending>>

\* The child exists and has not ended: running, in a ptrace-stop, in a plain
\* stop, or woken by SIGKILL and about to die of it.
ChildAlive == cstat \in {"run", "tstop", "jstop", "dying"}

\* kill(child_pid_, sig) by the controller.  SIGKILL wakes the child from
\* any stop and lets it run nothing more: it dies of it, some time after
\* kill has returned.  Another signal is left pending.
Kill(sig) ==
  IF ~ChildAlive THEN UNCHANGED kernVars
  ELSE IF sig = SIGKILL
    THEN /\ cstat' = "dying"
         /\ UNCHANGED <<traced, traceexec, stop, exitst, pending>>
    ELSE /\ pending' = pending \cup {sig}
         /\ UNCHANGED <<cstat, traced, traceexec, stop, exitst>>

\* ptrace(PTRACE_DETACH, child_pid_, nullptr, 0): succeeds on a tracee in a
\* ptrace-stop, which resumes untraced with the stop's signal dropped; fails
\* (ESRCH, ignored by every caller) otherwise.
PtraceDetach ==
  IF cstat = "tstop"
    THEN /\ cstat' = "run" /\ traced' = FALSE /\ traceexec' = FALSE
         /\ UNCHANGED <<stop, exitst, pending>>
    ELSE UNCHANGED kernVars

\* What waitpid(child_pid_, &status, flags) has to report.
WaitResult ==
  IF cstat \in {"none", "gone"} THEN "echild"
  ELSE IF cstat = "zombie" THEN "exit"
  ELSE IF cstat = "tstop" /\ ~stop.reported THEN "stop"
  ELSE "nothing"

\* The status waitpid stores when it reports.
WaitStatus ==
  IF cstat = "zombie" THEN exitst ELSE StStopped(stop.sig, stop.ev)

\* The kernel's side of a reporting waitpid: a zombie is reaped, a stop is
\* reported once.
WaitConsume ==
  IF WaitResult = "exit" THEN cstat' = "gone" /\ UNCHANGED stop
  ELSE IF WaitResult = "stop"
    THEN stop' = [stop EXCEPT !.reported = TRUE] /\ UNCHANGED cstat
  ELSE UNCHANGED <<cstat, stop>>

\* A pending signal is delivered to the running child: a traced child
\* enters a signal-delivery-stop; an untraced one dies of SIGTERM, which
\* the target program may also ignore.
ChildSignal ==
  /\ ChildRunning
  /\ \E s \in pending :
       /\ pending' = pending \ {s}
       /\ \/ /\ traced
             /\ cstat' = "tstop"
             /\ stop' = [sig |-> s, ev |-> 0, reported |-> FALSE]
             /\ UNCHANGED exitst
          \/ /\ ~traced
             /\ cstat' = "zombie" /\ exitst' = StSignaled(s)
             /\ UNCHANGED stop
          \/ /\ ~traced /\ cpc = "target"
             /\ UNCHANGED <<cstat, stop, exitst>>
  /\ UNCHANGED <<cpc, bf, traced, traceexec, image, ranTarget>>
  /\ UNCHANGED <<ctlVars, gateVars, histVars>>
  /\ UNCHANGED sideVars

\* The child dies of the SIGKILL sent to it.
ChildDie ==
  /\ cstat = "dying"
  /\ cstat' = "zombie" /\ exitst' = StSignaled(SIGKILL)
  /\ UNCHANGED <<cpc, bf, traced, traceexec, stop, pending, image, ranTarget>>
  /\ UNCHANGED <<ctlVars, gateVars, histVars>>
  /\ UNCHANGED sideVars

\* Another process sends the child SIGTERM.
EnvSignal ==
  /\ ChildAlive /\ nEnv < MaxEnvSignals
  /\ nEnv' = nEnv + 1
  /\ pending' = pending \cup {SIGTERM}
  /\ UNCHANGED <<cpc, bf, cstat, traced, traceexec, stop, exitst, image, ranTarget>>
  /\ UNCHANGED <<ctlVars, gateVars>>
  /\ UNCHANGED <<last, t_entry, steps, termTrace, written, nReads, nClose, nKill>>
  /\ UNCHANGED sideVars

\* ------------------------------------------------------------ check_child

\* Faulty variant of check_wstatus: a stop or continue status marks the child running.
check_wstatus_StopRuns(w) ==
  IF WIFEXITED(w)
    THEN exit_code_' = w.val /\ state_' = "DIED" /\ UNCHANGED term_signal_
  ELSE IF WIFSIGNALED(w)
    THEN term_signal_' = w.val /\ state_' = "DIED" /\ UNCHANGED exit_code_
  ELSE state_' = "RUNNING" /\ UNCHANGED <<exit_code_, term_signal_>>

\* Faulty variant of check_wstatus: the exit code and the signal go to each other's
\* field.
check_wstatus_Swapped(w) ==
  IF WIFEXITED(w)
    THEN term_signal_' = w.val /\ state_' = "DIED" /\ UNCHANGED exit_code_
  ELSE IF WIFSIGNALED(w)
    THEN exit_code_' = w.val /\ state_' = "DIED" /\ UNCHANGED term_signal_
  ELSE UNCHANGED <<state_, exit_code_, term_signal_>>

\* Faulty variant of check_wstatus: the status is recorded and state_ left
\* as it was.
check_wstatus_KeepsState(w) ==
  IF WIFEXITED(w)
    THEN exit_code_' = w.val /\ UNCHANGED <<state_, term_signal_>>
  ELSE IF WIFSIGNALED(w)
    THEN term_signal_' = w.val /\ UNCHANGED <<state_, exit_code_>>
  ELSE UNCHANGED <<state_, exit_code_, term_signal_>>

\* check_wstatus(wstatus)
check_wstatus(w) ==
  IF WIFEXITED(w)
    THEN exit_code_' = w.val /\ state_' = "DIED" /\ UNCHANGED term_signal_
  ELSE IF WIFSIGNALED(w)
    THEN term_signal_' = w.val /\ state_' = "DIED" /\ UNCHANGED exit_code_
  ELSE UNCHANGED <<state_, exit_code_, term_signal_>>

\* check_child(block): one waitpid (retried on EINTR), blocking or not.  A
\* failed wait marks the child dead; nothing to report changes nothing;
\* a reported status goes to check_wstatus.
check_child(block) ==
  /\ block => WaitResult # "nothing"
  /\ WaitConsume
  /\ IF WaitResult = "echild"
       THEN state_' = "DIED" /\ UNCHANGED <<exit_code_, term_signal_>>
     ELSE IF WaitResult = "nothing"
       THEN UNCHANGED <<state_, exit_code_, term_signal_>>
     ELSE check_wstatus(WaitStatus)

\* Faulty variant of is_alive: the state is answered from memory, never polled.
is_alive_NeverPolls ==
  UNCHANGED <<state_, exit_code_, term_signal_, cstat, stop>>

\* is_alive(): polls unless already dead.
is_alive ==
  IF state_ # "DIED"
    THEN check_child(FALSE)
    ELSE UNCHANGED <<state_, exit_code_, term_signal_, cstat, stop>>

\* ------------------------------------------------------------ the controller

\* The record of the call that returns now, and of the one before it.
Last(op, arg, res, k0) ==
  [op |-> op, arg |-> arg, res |-> res, k0 |-> k0,
   pop |-> last.op, parg |-> last.arg, pres |-> last.res]

\* What a call of terminate() finds on entry.
Entry ==
  [state |-> state_, ec |-> exit_code_, ts |-> term_signal_, k0 |-> nKill,
   zombie |-> cstat = "zombie", prev |-> last]

\* ChildProc::ChildProc: the stack is allocated; validate_cmd (a failure
\* throws: no object); eventfd (a failure builds a system_error, throws
\* nothing and goes on with event_fd = -1); clone (a failure closes event_fd
\* and throws: no object); then state_ = FORKED.  The stack is a local of
\* the constructor and is released as it returns or throws.
Construct ==
  /\ pc = "init"
  /\ child_stack' = StackAfterCtor
  /\ LET v == validate_cmd(cmd, paths) IN
       /\ v_err' = [err |-> v.err, count |-> v.count]
       /\ cmd' = v.cmd
       /\ IF v.err # "none"
            THEN /\ pc' = "failed"
                 /\ UNCHANGED <<gateCreated, nClose, child_event_fd_, ctlFdOpen,
                                cpc, cstat, image, state_>>
            ELSE \E eventfdOk \in BOOLEAN, cloneOk \in BOOLEAN :
              /\ gateCreated' = eventfdOk
              /\ nClose' = IF ~cloneOk /\ eventfdOk THEN nClose + 1 ELSE nClose
              /\ IF cloneOk
                   THEN /\ child_event_fd_' = IF eventfdOk THEN EventFd ELSE -1
                        /\ ctlFdOpen' = eventfdOk
                        /\ cpc' = "prctl" /\ cstat' = "run" /\ image' = "clone"
                        /\ state_' = "FORKED" /\ pc' = "idle"
                   ELSE /\ pc' = "failed"
                        /\ UNCHANGED <<child_event_fd_, ctlFdOpen, cpc, cstat,
                                       image, state_>>
  /\ UNCHANGED <<exit_code_, term_signal_, r_pause, t_force, ret_to, ndebug, gate>>
  /\ UNCHANGED <<bf, traced, traceexec, stop, exitst, pending, ranTarget>>
  /\ UNCHANGED <<last, t_entry, steps, termTrace, written, nReads, nKill, nEnv>>
  /\ UNCHANGED <<paths, argv, cacheVars>>

\* run(pause), to its write: is_alive(), the throw when the child has died,
\* assert(state_ == FORKED), which aborts unless compiled out.  The state
\* the call found is kept in t_entry.
RunBegin(p) ==
  /\ pc = "idle"
  /\ r_pause' = p
  /\ steps' = <<>> /\ termTrace' = <<>>
  /\ t_entry' = [NoEntry EXCEPT !.state = state_, !.k0 = nKill]
  /\ is_alive
  /\ IF state_' = "DIED"
       THEN pc' = "idle" /\ last' = Last("run", p, "err_died", 0)
     ELSE IF state_' = "FORKED" \/ ndebug
       THEN pc' = "run_write" /\ UNCHANGED last
     ELSE pc' = "abort" /\ UNCHANGED last
  /\ UNCHANGED <<child_event_fd_, t_force, ret_to, ndebug>>
  /\ UNCHANGED gateVars
  /\ UNCHANGED <<cpc, bf, traced, traceexec, exitst, pending, image, ranTarget>>
  /\ UNCHANGED <<written, nReads, nClose, nKill, nEnv>>
  /\ UNCHANGED sideVars

\* Faulty variant of Token: the go token whatever pause is.
Token_AlwaysGo(pause) == CHILD_GO

\* const auto* data = pause ? &CHILD_PTRACE : &CHILD_GO
Token(pause) == IF pause THEN CHILD_PTRACE ELSE CHILD_GO

\* write(child_event_fd_, data, 8) and what follows it: on failure
\* close and terminate(true); on success close, then state_ = RUNNING and
\* return, or state_ = PTRACE_PAUSE and on to the first wait.
RunWrite ==
  /\ pc = "run_write"
  /\ ctlFdOpen' = FALSE
  /\ nClose' = IF child_event_fd_ >= 0 THEN nClose + 1 ELSE nClose
  /\ \/ /\ child_event_fd_ >= 0 /\ ctlFdOpen
        /\ gate' = gate + Token(r_pause)
        /\ written' = Append(written, [pause |-> r_pause, token |-> Token(r_pause)])
        /\ IF r_pause
             THEN state_' = "PTRACE_PAUSE" /\ pc' = "run_wait1"
                  /\ UNCHANGED last
             ELSE state_' = "RUNNING" /\ pc' = "idle"
                  /\ last' = Last("run", FALSE, "ok", 0)
        /\ UNCHANGED <<t_force, ret_to, t_entry, termTrace>>
     \/ /\ pc' = "term_check" /\ t_force' = TRUE /\ ret_to' = "run_write"
        /\ t_entry' = Entry /\ termTrace' = <<>>
        /\ UNCHANGED <<gate, written, state_, last>>
  /\ UNCHANGED <<exit_code_, term_signal_, child_event_fd_, r_pause, ndebug, gateCreated>>
  /\ UNCHANGED childVars
  /\ UNCHANGED <<steps, nReads, nKill, nEnv>>
  /\ UNCHANGED sideVars

\* The test after the first wait: anything but a stop by SIGSTOP makes
\* report_status throw, outside the try block.
Wait1Test(w, observed) ==
  IF IsSelfStop(w)
    THEN /\ pc' = "run_setopt" /\ UNCHANGED last
         /\ steps' = IF observed THEN Append(steps, "selfstop") ELSE steps
    ELSE /\ pc' = "idle" /\ last' = Last("run", TRUE, "err_wait1", 0)
         /\ UNCHANGED steps

\* waitpid(child_pid_, &wstatus, 0), the first wait.  ECHILD throws; any
\* other failure falls through with wstatus never written.
RunWait1 ==
  /\ pc = "run_wait1"
  /\ \/ /\ WaitResult = "echild"
        /\ pc' = "idle" /\ last' = Last("run", TRUE, "err_wait1", 0)
        /\ UNCHANGED <<cstat, stop, steps>>
     \/ /\ WaitResult \in {"exit", "stop"}
        /\ WaitConsume
        /\ Wait1Test(WaitStatus, TRUE)
     \/ /\ \E g \in GarbageStatus :
             Wait1Test(g, FALSE)
        /\ UNCHANGED <<cstat, stop>>
  /\ UNCHANGED <<state_, exit_code_, term_signal_, child_event_fd_, r_pause, t_force, ret_to, ndebug>>
  /\ UNCHANGED gateVars
  /\ UNCHANGED <<cpc, bf, traced, traceexec, exitst, pending, image, ranTarget>>
  /\ UNCHANGED <<t_entry, termTrace, written, nReads, nClose, nKill, nEnv>>
  /\ UNCHANGED sideVars

\* ptrace(PTRACE_SETOPTIONS, child_pid_, nullptr, PTRACE_O_TRACEEXEC):
\* succeeds on a tracee in a ptrace-stop; a failure throws into the catch.
RunSetOptions ==
  /\ pc = "run_setopt"
  /\ IF cstat = "tstop"
       THEN traceexec' = TRUE /\ pc' = "run_cont"
            /\ steps' = Append(steps, "arm")
       ELSE pc' = "run_catch" /\ UNCHANGED <<traceexec, steps>>
  /\ UNCHANGED <<state_, exit_code_, term_signal_, child_event_fd_, r_pause, t_force, ret_to, ndebug>>
  /\ UNCHANGED gateVars
  /\ UNCHANGED <<cpc, bf, cstat, traced, stop, exitst, pending, image, ranTarget>>
  /\ UNCHANGED <<last, t_entry, termTrace, written, nReads, nClose, nKill, nEnv>>
  /\ UNCHANGED sideVars

\* ptrace(PTRACE_CONT, child_pid_, nullptr, 0): the stopped tracee resumes
\* with the stop's signal dropped; a failure throws into the catch.
RunCont ==
  /\ pc = "run_cont"
  /\ IF cstat = "tstop"
       THEN cstat' = "run" /\ pc' = "run_wait2"
            /\ steps' = Append(steps, "cont")
       ELSE pc' = "run_catch" /\ UNCHANGED <<cstat, steps>>
  /\ UNCHANGED <<state_, exit_code_, term_signal_, child_event_fd_, r_pause, t_force, ret_to, ndebug>>
  /\ UNCHANGED gateVars
  /\ UNCHANGED <<cpc, bf, traced, traceexec, stop, exitst, pending, image, ranTarget>>
  /\ UNCHANGED <<last, t_entry, termTrace, written, nReads, nClose, nKill, nEnv>>
  /\ UNCHANGED sideVars

\* waitpid(child_pid_, &wstatus, 0), the second wait: a failure throws; the
\* exec event's stop returns; any other status makes report_status throw.
RunWait2 ==
  /\ pc = "run_wait2"
  /\ \/ /\ WaitResult \in {"exit", "stop"}
        /\ WaitConsume
        /\ IF IsExecTrap(WaitStatus)
             THEN /\ pc' = "idle" /\ last' = Last("run", TRUE, "ok", 0)
                  /\ steps' = Append(steps, "exectrap")
             ELSE pc' = "run_catch" /\ UNCHANGED <<last, steps>>
     \/ /\ pc' = "run_catch"
        /\ UNCHANGED <<cstat, stop, last, steps>>
  /\ UNCHANGED <<state_, exit_code_, term_signal_, child_event_fd_, r_pause, t_force, ret_to, ndebug>>
  /\ UNCHANGED gateVars
  /\ UNCHANGED <<cpc, bf, traced, traceexec, exitst, pending, image, ranTarget>>
  /\ UNCHANGED <<t_entry, termTrace, written, nReads, nClose, nKill, nEnv>>
  /\ UNCHANGED sideVars

\* The catch block: ptrace(PTRACE_DETACH), then terminate(true).
RunCatch ==
  /\ pc = "run_catch"
  /\ PtraceDetach
  /\ pc' = "term_check" /\ t_force' = TRUE /\ ret_to' = "run_catch"
  /\ t_entry' = Entry /\ termTrace' = <<>>
  /\ UNCHANGED <<state_, exit_code_, term_signal_, child_event_fd_, r_pause, ndebug>>
  /\ UNCHANGED gateVars
  /\ UNCHANGED <<cpc, bf, image, ranTarget>>
  /\ UNCHANGED <<last, steps, written, nReads, nClose, nKill, nEnv>>
  /\ UNCHANGED sideVars

\* terminate() returns to its caller: the user, run()'s failed write, run()'s
\* catch block (both then throw), or the destructor.
TermReturn(rt, force, k0) ==
  IF rt = "user"
    THEN pc' = "idle" /\ last' = Last("terminate", force, "ok", k0)
  ELSE IF rt = "run_write"
    THEN pc' = "idle" /\ last' = Last("run", r_pause, "err_write", k0)
  ELSE IF rt = "run_catch"
    THEN pc' = "idle" /\ last' = Last("run", r_pause, "err_try", k0)
  ELSE pc' = "destroyed" /\ last' = Last("dtor", FALSE, "ok", k0)

\* Faulty variant of TermEntry: no return when the child has died already.
TermEntry_NoDiedCheck(rt, force, k0) ==
  /\ check_child(FALSE)
  /\ pc' = "term_kill" /\ UNCHANGED last

\* terminate(force), to its kill: check_child(), and the return when the
\* child has died.
TermEntry(rt, force, k0) ==
  /\ check_child(FALSE)
  /\ IF state_' = "DIED"
       THEN TermReturn(rt, force, k0)
       ELSE pc' = "term_kill" /\ UNCHANGED last

\* The user calls terminate(force).
CallTerminate(force) ==
  /\ pc = "idle" /\ nKill < MaxKill
  /\ t_force' = force /\ ret_to' = "user"
  /\ t_entry' = Entry /\ termTrace' = <<>> /\ steps' = <<>>
  /\ TermEntry("user", force, nKill)
  /\ UNCHANGED <<child_event_fd_, r_pause, ndebug>>
  /\ UNCHANGED gateVars
  /\ UNCHANGED <<cpc, bf, traced, traceexec, exitst, pending, image, ranTarget>>
  /\ UNCHANGED <<written, nReads, nClose, nKill, nEnv>>
  /\ UNCHANGED sideVars

\* terminate(true) called by run() or by the destructor.
TermCheck ==
  /\ pc = "term_check"
  /\ TermEntry(ret_to, t_force, t_entry.k0)
  /\ UNCHANGED <<child_event_fd_, r_pause, t_force, ret_to, ndebug>>
  /\ UNCHANGED gateVars
  /\ UNCHANGED <<cpc, bf, traced, traceexec, exitst, pending, image, ranTarget>>
  /\ UNCHANGED <<t_entry, steps, termTrace, written, nReads, nClose, nKill, nEnv>>
  /\ UNCHANGED sideVars

\* Faulty variant of TermKill: a paused child is not detached.
TermKill_NoDetach ==
  /\ pc = "term_kill"
  /\ Kill(IF t_force THEN SIGKILL ELSE SIGTERM)
  /\ nKill' = nKill + 1
  /\ termTrace' = Append(termTrace, IF ChildAlive THEN "kill" ELSE "kill_late")
  /\ pc' = "term_reap"
  /\ UNCHANGED <<state_, exit_code_, term_signal_, child_event_fd_, r_pause, t_force, ret_to, ndebug>>
  /\ UNCHANGED gateVars
  /\ UNCHANGED <<cpc, bf, image, ranTarget>>
  /\ UNCHANGED <<last, t_entry, steps, written, nReads, nClose, nEnv>>
  /\ UNCHANGED sideVars

\* kill(child_pid_, force ? SIGKILL : SIGTERM)
TermKill ==
  /\ pc = "term_kill"
  /\ Kill(IF t_force THEN SIGKILL ELSE SIGTERM)
  /\ nKill' = nKill + 1
  /\ termTrace' = Append(termTrace, IF ChildAlive THEN "kill" ELSE "kill_late")
  /\ pc' = IF state_ = "PTRACE_PAUSE" THEN "term_detach" ELSE "term_reap"
  /\ UNCHANGED <<state_, exit_code_, term_signal_, child_event_fd_, r_pause, t_force, ret_to, ndebug>>
  /\ UNCHANGED gateVars
  /\ UNCHANGED <<cpc, bf, image, ranTarget>>
  /\ UNCHANGED <<last, t_entry, steps, written, nReads, nClose, nEnv>>
  /\ UNCHANGED sideVars

\* if (state_ == PTRACE_PAUSE) ptrace(PTRACE_DETACH, ...)
TermDetach ==
  /\ pc = "term_detach"
  /\ PtraceDetach
  /\ termTrace' = Append(termTrace, "detach")
  /\ pc' = "term_reap"
  /\ UNCHANGED <<state_, exit_code_, term_signal_, child_event_fd_, r_pause, t_force, ret_to, ndebug>>
  /\ UNCHANGED gateVars
  /\ UNCHANGED <<cpc, bf, image, ranTarget>>
  /\ UNCHANGED <<last, t_entry, steps, written, nReads, nClose, nKill, nEnv>>
  /\ UNCHANGED sideVars

\* Faulty variant of TermReap: the reap never blocks.
TermReap_NoBlock ==
  /\ pc = "term_reap"
  /\ check_child(FALSE)
  /\ TermReturn(ret_to, t_force, t_entry.k0)
  /\ UNCHANGED <<child_event_fd_, r_pause, t_force, ret_to, ndebug>>
  /\ UNCHANGED gateVars
  /\ UNCHANGED <<cpc, bf, traced, traceexec, exitst, pending, image,
                 ranTarget>>
  /\ UNCHANGED <<t_entry, steps, termTrace, written, nReads, nClose, nKill,
                 nEnv>>
  /\ UNCHANGED sideVars

\* check_child(force), and terminate's return.
TermReap ==
  /\ pc = "term_reap"
  /\ check_child(t_force)
  /\ TermReturn(ret_to, t_force, t_entry.k0)
  /\ UNCHANGED <<child_event_fd_, r_pause, t_force, ret_to, ndebug>>
  /\ UNCHANGED gateVars
  /\ UNCHANGED <<cpc, bf, traced, traceexec, exitst, pending, image, ranTarget>>
  /\ UNCHANGED <<t_entry, steps, termTrace, written, nReads, nClose, nKill, nEnv>>
  /\ UNCHANGED sideVars

\* The user calls is_alive().
IsAlive ==
  /\ pc = "idle"
  /\ is_alive
  /\ last' = Last("is_alive", FALSE,
                  IF state_' # "DIED" THEN "true" ELSE "false", 0)
  /\ UNCHANGED <<child_event_fd_, pc, r_pause, t_force, ret_to, ndebug>>
  /\ t_entry' = NoEntry /\ steps' = <<>> /\ termTrace' = <<>>
  /\ UNCHANGED gateVars
  /\ UNCHANGED <<cpc, bf, traced, traceexec, exitst, pending, image, ranTarget>>
  /\ UNCHANGED <<written, nReads, nClose, nKill, nEnv>>
  /\ UNCHANGED sideVars

\* The user calls resume(): assert(state_ == PTRACE_PAUSE), which aborts
\* unless compiled out, then ptrace(PTRACE_DETACH).
Resume ==
  /\ pc = "idle"
  /\ IF state_ = "PTRACE_PAUSE" \/ ndebug
       THEN /\ PtraceDetach
            /\ pc' = "idle" /\ last' = Last("resume", FALSE, "ok", 0)
       ELSE /\ pc' = "abort"
            /\ UNCHANGED <<kernVars, last>>
  /\ UNCHANGED <<state_, exit_code_, term_signal_, child_event_fd_, r_pause, t_force, ret_to, ndebug>>
  /\ t_entry' = NoEntry /\ steps' = <<>> /\ termTrace' = <<>>
  /\ UNCHANGED gateVars
  /\ UNCHANGED <<cpc, bf, image, ranTarget>>
  /\ UNCHANGED <<written, nReads, nClose, nKill, nEnv>>
  /\ UNCHANGED sideVars

\* Faulty variant of Destroy: the destructor closes the gate and leaves the child.
Destroy_NoTerminate ==
  /\ pc = "idle"
  /\ ctlFdOpen' = FALSE
  /\ nClose' = IF child_event_fd_ >= 0 THEN nClose + 1 ELSE nClose
  /\ pc' = "destroyed" /\ last' = Last("dtor", FALSE, "ok", nKill)
  /\ t_entry' = NoEntry /\ termTrace' = <<>> /\ steps' = <<>>
  /\ UNCHANGED <<state_, exit_code_, term_signal_, child_event_fd_, r_pause,
                 t_force, ret_to, ndebug>>
  /\ UNCHANGED <<gate, gateCreated>>
  /\ UNCHANGED childVars
  /\ UNCHANGED <<written, nReads, nKill, nEnv>>
  /\ UNCHANGED sideVars

\* ChildProc::~ChildProc: close(child_event_fd_) when it is >= 0, then
\* is_alive() and, when alive, terminate(true).
Destroy ==
  /\ pc = "idle"
  /\ ctlFdOpen' = FALSE
  /\ nClose' = IF child_event_fd_ >= 0 THEN nClose + 1 ELSE nClose
  /\ is_alive
  /\ IF state_' # "DIED"
       THEN /\ pc' = "term_check" /\ t_force' = TRUE /\ ret_to' = "dtor"
            /\ t_entry' = Entry /\ termTrace' = <<>>
            /\ UNCHANGED last
       ELSE /\ pc' = "destroyed" /\ last' = Last("dtor", FALSE, "ok", nKill)
            /\ t_entry' = NoEntry /\ termTrace' = <<>>
            /\ UNCHANGED <<t_force, ret_to>>
  /\ UNCHANGED <<child_event_fd_, r_pause, ndebug>>
  /\ steps' = <<>>
  /\ UNCHANGED <<gate, gateCreated>>
  /\ UNCHANGED <<cpc, bf, traced, traceexec, exitst, pending, image, ranTarget>>
  /\ UNCHANGED <<written, nReads, nKill, nEnv>>
  /\ UNCHANGED sideVars

\* A failed assert: abort() ends the controller without any destructor.  The
\* kernel sends the child the parent-death signal it asked for and ends the
\* trace, resuming a stopped tracee.
Abort ==
  /\ pc = "abort"
  /\ pc' = "aborted"
  /\ pending' = IF ChildAlive /\ cpc # "prctl"
                  THEN pending \cup {SIGTERM} ELSE pending
  /\ cstat' = IF cstat = "tstop" THEN "run" ELSE cstat
  /\ traced' = FALSE /\ traceexec' = FALSE
  /\ UNCHANGED <<state_, exit_code_, term_signal_, child_event_fd_, r_pause, t_force, ret_to, ndebug>>
  /\ UNCHANGED gateVars
  /\ UNCHANGED <<cpc, bf, stop, exitst, image, ranTarget>>
  /\ UNCHANGED histVars
  /\ UNCHANGED sideVars

\* ------------------------------------------------------------ the system

ChildNext ==
  \/ ChildPrctl \/ ChildReadOk \/ ChildReadFail \/ ChildTraceme
  \/ ChildSelfStop \/ ChildExecve \/ TargetRun
  \/ \E c \in ExitCodes : TargetExit(c)
  \/ ChildSignal \/ ChildDie \/ EnvSignal

RunNext ==
  \/ RunWrite \/ RunWait1 \/ RunSetOptions \/ RunCont \/ RunWait2 \/ RunCatch

TermNext ==
  \/ TermCheck \/ TermKill \/ TermDetach \/ TermReap

Next ==
  \/ Construct
  \/ \E p \in BOOLEAN : RunBegin(p)
  \/ RunNext
  \/ \E f \in BOOLEAN : CallTerminate(f)
  \/ TermNext
  \/ IsAlive \/ Resume \/ Destroy \/ Abort
  \/ ChildNext

Spec == Init /\ [][Next]_vars

\* The launch, run(false), is_alive() polling scenario: the user calls
\* run(false) once and then only polls is_alive(), which the scenario
\* repeats for ever.
PollRun == last.op = "none" /\ RunBegin(FALSE)

PollNext ==
  \/ Construct
  \/ PollRun
  \/ RunWrite
  \/ TermCheck \/ TermKill \/ TermReap
  \/ IsAlive
  \/ ChildPrctl \/ ChildReadOk \/ ChildReadFail \/ ChildExecve \/ TargetRun
  \/ \E c \in ExitCodes : TargetExit(c)
  \/ ChildSignal \/ ChildDie \/ EnvSignal

PollSpec == Init /\ [][PollNext]_vars /\ WF_vars(IsAlive)

\* The launch alone, of every command line of at most MaxCmdSize tokens
\* whose first token resolves to at most MaxCandidates candidates.
LaunchInit ==
  /\ InitObject
  /\ cmd \in {CmdOfSize(n) : n \in 1 .. MaxCmdSize}
  /\ paths \in {PathsOf(reals) : reals \in CandidateLists}

LaunchSpec == LaunchInit /\ [][Construct]_vars

CacheSpec == Init /\ [][CacheNext]_vars

\* The launch of every such command line and the child's first steps, to
\* its argv.
ArgvSpec == LaunchInit /\ [][Construct \/ ChildPrctl]_vars

\* The launch and one call of run(true), with nothing after it.
PauseRun == last.op = "none" /\ RunBegin(TRUE)

PauseNext ==
  \/ Construct
  \/ PauseRun
  \/ RunNext
  \/ TermNext
  \/ ChildNext

\* The steps the child and the kernel take when left to run; the target
\* program is taken to end.
ChildProgress ==
  \/ ChildPrctl \/ ChildReadOk \/ ChildReadFail \/ ChildTraceme
  \/ ChildSelfStop \/ ChildExecve \/ TargetRun
  \/ \E c \in ExitCodes : TargetExit(c)
  \/ ChildSignal \/ ChildDie

\* The steps of run() that do not wait on anything, and its waits once the
\* child has a status to report; a wait interrupted by a signal to the
\* controller is possible and never due.
RunProgress ==
  \/ RunWrite \/ RunSetOptions \/ RunCont \/ RunCatch
  \/ (RunWait1 \/ RunWait2) /\ WaitResult # "nothing"
  \/ TermNext

PauseSpec ==
  /\ Init /\ [][PauseNext]_vars
  /\ WF_vars(ChildProgress) /\ WF_vars(RunProgress)

\* ------------------------------------------------------------ claims

Returned(op) == pc = "idle" /\ last.op = op

\* C1: the child reaches execve, and the target's image, only after run() has
\* written a token to the start gate and the child's read has taken it; a
\* child whose read failed, or whose gate was never written, never holds
\* the target's image.
C1_ExecOnlyAfterGate ==
  /\ (cpc \in {"traceme", "selfstop", "execve", "target"} \/ image = "target")
       => /\ Len(written) >= 1
          /\ bf = written[1].token
  /\ (Len(written) = 0 \/ bf = 0) => image # "target"

\* C1's case: the target's image is loaded, the token having been written.
C1_Witness == image = "target" /\ Len(written) = 1 /\ bf = CHILD_GO

\* C2: whenever run(true) returns without error, state_ is PTRACE_PAUSE, the
\* child is stopped at the exec event with the target's image loaded and no
\* instruction of it run, and the controller got there by observing the
\* self-stop, arming the exec trap, continuing the child and observing the
\* exec-trap stop, in this order.
C2_PausedAtExec ==
  (Returned("run") /\ last.arg /\ last.res = "ok")
    => /\ state_ = "PTRACE_PAUSE"
       /\ cstat = "tstop" /\ stop.sig = SIGTRAP /\ stop.ev = PTRACE_EVENT_EXEC
       /\ image = "target" /\ ~ranTarget
       /\ steps = <<"selfstop", "arm", "cont", "exectrap">>

\* C3: whenever run(true) fails after the token was written, at either wait
\* or at a ptrace step, the child is no longer alive or stopped and state_
\* is DIED when the failure is reported.
C3_FailedRunCleansUp ==
  (Returned("run") /\ last.arg /\ last.res \in {"err_wait1", "err_try"})
    => state_ = "DIED" /\ ~ChildAlive

\* C4: state_ changes only from FORKED to RUNNING or PTRACE_PAUSE, or from
\* a state other than DIED to DIED; DIED is never left, and RUNNING and
\* PTRACE_PAUSE are entered from FORKED only.
C4_StateMachine ==
  [][state_' # state_ =>
       \/ state_ = "INIT" /\ state_' = "FORKED"
       \/ state_ = "FORKED" /\ state_' \in {"RUNNING", "PTRACE_PAUSE"}
       \/ state_ \in {"FORKED", "RUNNING", "PTRACE_PAUSE"} /\ state_' = "DIED"
    ]_vars

\* C4's case: a call made on a tracker that went FORKED, PTRACE_PAUSE, DIED.
C4_Witness ==
  /\ Returned("terminate") /\ last.pop = "run" /\ last.pres = "err_try"
  /\ t_entry.state = "DIED" /\ state_ = "DIED"

\* C5: over one tracker's life at most one token is written to the gate and
\* the child reads the gate at most once; the token written is PAUSE
\* exactly when run was called with pause = true, and the token the child
\* has read is the token written.
C5_OneToken ==
  /\ Len(written) <= 1
  /\ nReads <= 1
  /\ \A i \in 1 .. Len(written) :
       /\ written[i].token \in {CHILD_GO, CHILD_PTRACE}
       /\ written[i].token = CHILD_PTRACE <=> written[i].pause
  /\ bf # 0 => Len(written) = 1 /\ bf = written[1].token

\* C5's case: a second call of run() has returned, the child having read
\* the first call's token.
C5_Witness ==
  /\ Returned("run") /\ last.pop = "run" /\ last.pres = "ok"
  /\ bf = CHILD_PTRACE /\ Len(written) = 1

\* C6, as claimed: when terminate(force) returns, for either force, the
\* child has been reaped and state_ is DIED.
C6_TerminateReaps ==
  Returned("terminate") => state_ = "DIED" /\ cstat = "gone"

\* C6, amended: when terminate(true) returns, state_ is DIED; whenever
\* terminate returns with state_ DIED, the child has been reaped.
C6_ForcedTerminateReaps ==
  Returned("terminate")
    => /\ last.arg => state_ = "DIED"
       /\ state_ = "DIED" => cstat = "gone"

\* C6's case: terminate(true) found a paused child, killed and reaped it.
C6_Witness ==
  /\ Returned("terminate") /\ last.arg
  /\ t_entry.state = "PTRACE_PAUSE" /\ termTrace = <<"kill", "detach">>
  /\ state_ = "DIED" /\ term_signal_ = SIGKILL

\* Two consecutive calls of terminate: the one that returned last and the
\* one before it.
TwoTerminates == Returned("terminate") /\ t_entry.prev.op = "terminate"

\* C7, as claimed: two consecutive calls of terminate send at most one
\* signal in total, the second changes neither state_ nor the exit status
\* and leaves no zombie; a call made when state_ is DIED sends no signal.
C7_Idempotent ==
  /\ TwoTerminates
       => /\ nKill - t_entry.prev.k0 <= 1
          /\ state_ = t_entry.state
          /\ exit_code_ = t_entry.ec /\ term_signal_ = t_entry.ts
          /\ cstat # "zombie"
  /\ (Returned("terminate") /\ t_entry.state = "DIED") => nKill = t_entry.k0

\* C7, amended: a call of terminate made when state_ is DIED sends no
\* signal, changes neither state_ nor the exit status and finds the child
\* reaped; a call that follows terminate(true) is such a call, and the two
\* send at most one signal in total.
C7_IdempotentOnceDead ==
  /\ (Returned("terminate") /\ t_entry.state = "DIED")
       => /\ nKill = t_entry.k0
          /\ state_ = "DIED"
          /\ exit_code_ = t_entry.ec /\ term_signal_ = t_entry.ts
          /\ cstat = "gone"
  /\ (TwoTerminates /\ t_entry.prev.arg)
       => /\ t_entry.state = "DIED"
          /\ nKill - t_entry.prev.k0 <= 1

\* C7's case: a second terminate after a terminate(true) that sent SIGKILL.
C7_Witness ==
  /\ TwoTerminates /\ t_entry.prev.arg
  /\ nKill - t_entry.prev.k0 = 1 /\ term_signal_ = SIGKILL

\* C8: once the tracker is destroyed, the child is neither running nor
\* stopped nor a zombie: it has been reaped.
C8_DestroyedMeansReaped == pc = "destroyed" => cstat = "gone"

\* C8's case: the destructor found a paused child alive and killed it.
C8_Witness ==
  /\ pc = "destroyed" /\ t_entry.state = "PTRACE_PAUSE"
  /\ termTrace = <<"kill", "detach">> /\ term_signal_ = SIGKILL

\* resume() then terminate(true), after a run(true) that succeeded.
ResumeThenKill ==
  /\ Returned("terminate") /\ last.arg
  /\ t_entry.prev.op = "resume"
  /\ t_entry.prev.pop = "run" /\ t_entry.prev.parg /\ t_entry.prev.pres = "ok"

\* resume() has returned, after a run(true) that succeeded.
Resumed ==
  Returned("resume") /\ last.pop = "run" /\ last.parg /\ last.pres = "ok"

\* C10, as claimed: after a successful run(true), resume() leaves state_
\* PTRACE_PAUSE, and resume() then terminate(true) ends with state_ DIED, the
\* kill signal recorded and no exit code.
C10_ResumeThenKill ==
  /\ Resumed => state_ = "PTRACE_PAUSE"
  /\ ResumeThenKill
       => /\ state_ = "DIED"
          /\ term_signal_ = SIGKILL /\ exit_code_ = NoValue

\* C10, amended: after a successful run(true), resume() leaves state_
\* PTRACE_PAUSE, and resume() then terminate(true) ends with state_ DIED and
\* exactly one of exit code and terminating signal recorded: the kill
\* signal when the child was still alive as terminate sent it.
C10_ResumeThenKillOrExit ==
  /\ Resumed => state_ = "PTRACE_PAUSE"
  /\ ResumeThenKill
       => /\ state_ = "DIED"
          /\ (term_signal_ = NoValue) # (exit_code_ = NoValue)
          /\ (Len(termTrace) > 0 /\ termTrace[1] = "kill")
               => term_signal_ = SIGKILL /\ exit_code_ = NoValue

\* C10's case: the resumed target ran and was killed by terminate(true).
C10_Witness ==
  ResumeThenKill /\ ranTarget /\ term_signal_ = SIGKILL

\* The target program has exited with code c and awaits its reaping, the
\* tracker being in state RUNNING.
TargetExited(c) ==
  /\ state_ = "RUNNING" /\ image = "target"
  /\ cstat = "zombie" /\ exitst = StExited(c)

\* is_alive() has returned false with exit code c and no signal recorded.
PolledDead(c) ==
  /\ Returned("is_alive") /\ last.res = "false"
  /\ state_ = "DIED" /\ exit_code_ = c /\ term_signal_ = NoValue

\* C9: after run(false), once the target program has exited with code c,
\* is_alive() polling eventually returns false with state_ DIED, exit code c
\* recorded and no signal recorded; while the child has not ended, polling
\* leaves state_ RUNNING.
C9_PollSeesExit ==
  /\ \A c \in ExitCodes : TargetExited(c) ~> PolledDead(c)
  /\ [][(state_ = "RUNNING" /\ cstat \notin {"zombie", "gone"})
          => state_' = "RUNNING"]_vars

\* C9's case: polling first found the target alive, then found it exited
\* with code 0.
C9_Witness ==
  /\ PolledDead(0) /\ image = "target"
  /\ last.pop = "is_alive" /\ last.pres = "true"

\* The first token resolves: to one candidate, or to several whose real
\* paths are one file.
Resolvable ==
  \/ Len(paths) = 1
  \/ Len(paths) >= 2 /\ Cardinality(uniq_abs_path(paths)) = 1

Launched == pc # "init"

\* C11: a resolvable command line of exactly maxargs - 1 tokens is accepted
\* by validate_cmd, one of maxargs tokens fails with TooManyArguments, and
\* none of at most maxargs - 1 tokens is rejected for its argument count.
C11_BoundaryAccepted ==
  Launched =>
    /\ (Resolvable /\ Len(cmd) = maxargs - 1) => v_err.err = "none"
    /\ (Resolvable /\ Len(cmd) = maxargs) => v_err.err = "TooManyArguments"
    /\ Len(cmd) <= maxargs - 1 => v_err.err # "TooManyArguments"

\* The real paths among the candidates.
RealPathsFound == {r \in RealPaths : \E i \in 1 .. Len(paths) : paths[i].real = r}

\* Every candidate canonicalizes, and to one real path.
AllOneRealPath ==
  /\ \A i \in 1 .. Len(paths) : paths[i].real # NoPath
  /\ Cardinality(RealPathsFound) = 1

\* C12, as claimed: with two or more candidates, validate_cmd accepts,
\* taking the first raw candidate, exactly when all candidates canonicalize
\* to the same real path, and fails otherwise with AmbiguousBinary reporting
\* the number of different real paths among the candidates.
C12_AmbiguousCountsRealPaths ==
  (Launched /\ Len(paths) >= 2) =>
    /\ v_err.err # "AmbiguousBinary" <=> AllOneRealPath
    /\ v_err.err # "AmbiguousBinary" => cmd[1] = paths[1].raw
    /\ v_err.err = "AmbiguousBinary"
         => v_err.count = Cardinality(RealPathsFound)

\* C12, amended: with two or more candidates, validate_cmd accepts, taking
\* the first raw candidate, exactly when the candidates that canonicalize
\* have one real path among them, and fails otherwise with AmbiguousBinary
\* reporting the number of candidates; that number is the number of real
\* paths when every candidate canonicalizes to a real path of its own.
C12_AmbiguousCountsCandidates ==
  (Launched /\ Len(paths) >= 2) =>
    /\ v_err.err # "AmbiguousBinary" <=> Cardinality(RealPathsFound) = 1
    /\ v_err.err # "AmbiguousBinary" => cmd[1] = SearchPath[1]
    /\ v_err.err = "AmbiguousBinary" => v_err.count = Len(paths)
    /\ (/\ \A i \in 1 .. Len(paths) : paths[i].real # NoPath
        /\ \A i, j \in 1 .. Len(paths) :
             i # j => paths[i].real # paths[j].real)
         => /\ v_err.err = "AmbiguousBinary"
            /\ v_err.count = Cardinality(RealPathsFound)

\* C12's case: three candidates, two of them one file, are rejected.
C12_Witness ==
  /\ pc = "failed" /\ v_err.err = "AmbiguousBinary" /\ v_err.count = 3
  /\ Cardinality(RealPathsFound) = 2

\* C13: when eventfd fails, the launch fails: clone is not attempted, no
\* child exists and no object in state FORKED results.
C13_GateFailureFailsLaunch ==
  (Launched /\ v_err.err = "none" /\ ~gateCreated)
    => pc = "failed" /\ cstat = "none" /\ state_ # "FORKED"

\* C15, as claimed: while the tracker exists and the child is not reaped,
\* the controller has not released the child's stack.
C15_StackLivesWithTracker ==
  (pc \notin {"init", "failed", "destroyed"} /\ cstat # "gone")
    => child_stack = "allocated"

\* C15, amended: the controller has released the child's stack when the
\* launch returns, whether it succeeded or failed, and the stack stays
\* released for the tracker's life; the child, cloned without shared
\* memory, runs on a copy of its own.
C15_StackLivesWithLaunch ==
  /\ Launched => child_stack = "freed"
  /\ cstat # "none" => ChildStackIntact

\* C15's case: the target program runs, the stack long released.
C15_Witness ==
  /\ cstat = "run" /\ image = "target" /\ ranTarget
  /\ child_stack = "freed" /\ state_ = "RUNNING"

\* A call of run() is in progress or has just returned.
InRun ==
  \/ pc \in {"run_write", "run_wait1", "run_setopt", "run_cont", "run_wait2",
             "run_catch"}
  \/ /\ pc \in {"term_check", "term_kill", "term_detach", "term_reap"}
     /\ ret_to \in {"run_write", "run_catch"}
  \/ Returned("run")

\* C14: run() called when state_ is RUNNING, PTRACE_PAUSE or DIED fails at
\* once: it goes no further than its checks, writes no token, sends no
\* signal and leaves state_ as it found it.
C14_RunWhenStartedFails ==
  (InRun /\ t_entry.state \in {"RUNNING", "PTRACE_PAUSE", "DIED"})
    => /\ Returned("run") /\ last.res = "err_died"
       /\ state_ = t_entry.state
       /\ nKill = t_entry.k0

\* C16: under the PerPid policy two processes of one binary have views of
\* their own; evict(p) removes the view of p and leaves every other
\* process's view as it was; and every resolve, before or after an
\* eviction, answers what the binary's table holds for the address.
C16_EvictOnlyOwnView ==
  /\ [](\A p, q \in Pids :
          (p # q /\ pid_sym_[p] # NoView /\ pid_sym_[q] # NoView)
            => pid_sym_[p].inst # pid_sym_[q].inst)
  /\ [](answer.pid \in Pids => answer.sym = lookup(ElfTable, answer.addr))
  /\ [][\A p \in Pids :
          (pid_sym_[p] # NoView /\ pid_sym_'[p] = NoView)
            => \A q \in Pids \ {p} : pid_sym_'[q] = pid_sym_[q]]_vars

\* C16's case: the view of process 1 was built after that of process 2
\* and has been evicted; process 2 is answered from the view it had.
C16_Witness ==
  /\ pid_sym_[1] = NoView /\ pid_sym_[2].inst = 1 /\ nBuilds = 2
  /\ answer.pid = 2 /\ answer.hit /\ answer.sym = [name |-> "g", offset |-> 0]

\* C17: in pause mode the child stops only once it is marked traceable, and
\* it is on its way to execve only after it has stopped itself, the
\* controller has observed that stop and the child has been continued (no
\* signal from outside having stopped it since).
C17_StoppedBeforeExec ==
  bf = CHILD_PTRACE =>
    /\ cstat # "jstop"
    /\ (cpc = "execve" /\ cstat = "run" /\ nEnv = 0)
         => stop.sig = SIGSTOP /\ stop.reported

\* The signals terminate() has sent, to a child alive or already ended.
Kills == {"kill", "kill_late"}

\* C18, as claimed: in terminate() called in state PTRACE_PAUSE on a child
\* that is not dead, the detach comes before the signal.
C18_DetachBeforeKill ==
  t_entry.state = "PTRACE_PAUSE"
    => \A i \in 1 .. Len(termTrace) :
         termTrace[i] = "kill"
           => \E j \in 1 .. i - 1 : termTrace[j] = "detach"

\* C18, amended: in terminate() called in state PTRACE_PAUSE on a child
\* that is not dead, the signal is sent first and the detach follows it,
\* before the reap.
C18_KillBeforeDetach ==
  t_entry.state = "PTRACE_PAUSE"
    => /\ termTrace # <<>> => termTrace[1] \in Kills
       /\ pc = "term_detach" => Len(termTrace) = 1
       /\ pc = "term_reap"
            => Len(termTrace) = 2 /\ termTrace[2] = "detach"

\* C18's case: terminate(false) has signalled and then detached a paused
\* child that was alive.
C18_Witness ==
  /\ Returned("terminate") /\ ~last.arg
  /\ t_entry.state = "PTRACE_PAUSE" /\ termTrace = <<"kill", "detach">>

\* C19: once a tracker launched with its gate is destroyed, the controller
\* has closed the gate's descriptor exactly once.
C19_GateClosedOnce ==
  (pc = "destroyed" /\ gateCreated) => nClose = 1

\* C20: a call of run(true) that has come to its write returns in the end,
\* whatever the child does.
C20_RunReturns ==
  (pc = "run_write" /\ r_pause) ~> Returned("run")

\* An exit code or a terminating signal is recorded.
Recorded == exit_code_ # NoValue \/ term_signal_ # NoValue

\* C21: an exit code or a terminating signal is recorded only in state
\* DIED, and never both; once one is recorded, no step (polling, terminate,
\* run, resume, destruction) changes either.
C21_ExitStatusOnceDead ==
  /\ [](Recorded => state_ = "DIED")
  /\ [](exit_code_ = NoValue \/ term_signal_ = NoValue)
  /\ [][Recorded => /\ exit_code_' = exit_code_
                    /\ term_signal_' = term_signal_]_vars

\* C21's case: the tracker is destroyed after a poll, then a terminate, of
\* a child that had exited with code 1, the code still recorded.
C21_Witness ==
  /\ pc = "destroyed" /\ last.pop = "terminate"
  /\ state_ = "DIED" /\ exit_code_ = 1 /\ term_signal_ = NoValue

\* C22: the child of a command validate_cmd accepted writes to argv only
\* inside its maxargs slots: the tokens in order from slot 0, the null
\* pointer in the slot after the last token, and nothing else.
C22_ArgvWithinArray ==
  cpc = "read" =>
    /\ DOMAIN argv \subseteq ArgvSlots
    /\ Len(cmd) + 1 <= maxargs
    /\ DOMAIN argv = 0 .. Len(cmd)
    /\ \A i \in 1 .. Len(cmd) : argv[i - 1] = cmd[i]
    /\ argv[Len(cmd)] = NullPtr

\* C22's case: the longest command validate_cmd accepts, its argv built.
C22_Witness ==
  /\ cpc = "read" /\ Len(cmd) = maxargs - 2
  /\ argv[0] = SearchPath[1] /\ argv[maxargs - 2] = NullPtr

====
